---- MODULE Spec2Model ----
(***************************************************************************)
(* CPU feature detection for the ARM back end (runtime/vm/cpu_arm.h).      *)
(*                                                                         *)
(* HostCPUFeatures holds five static fields and, in DEBUG builds, the      *)
(* flag initialized_.  TargetCPUFeatures holds no field: every member      *)
(* forwards to HostCPUFeatures, except double_truncate_round_supported.    *)
(* The two preprocessor symbols DEBUG and HOST_ARCH_ARM select the build;  *)
(* they are fixed in the initial state and never change.                   *)
(*                                                                         *)
(* HostCPUFeatures::Init and ::Cleanup are only declared in the header;    *)
(* their bodies, the static initialisers of the fields and the macro       *)
(* DEBUG_ASSERT live in files that are not part of the sources at hand and *)
(* are modelled from the specification document.                           *)
(***************************************************************************)
EXTENDS Integers, FiniteSets, Sequences, TLC

VARIABLES
    DEBUG,                        \* #if defined(DEBUG)
    HOST_ARCH_ARM,                \* #if defined(HOST_ARCH_ARM)
    probe,                        \* what the platform probe reports on this machine
    hardware_,                    \* static const char* hardware_
    integer_division_supported_,  \* static bool
    neon_supported_,              \* static bool
    hardfp_supported_,            \* static bool
    store_pc_read_offset_,        \* static intptr_t
    initialized_,                 \* static bool, DEBUG builds only
    pc,                           \* "running", or "aborted" after a failed assertion
    last,                         \* the last call made and what it returned
    live,                         \* history: Init has run and no Cleanup since
    cleanups,                     \* history: number of Cleanups that have run
    divSet,                       \* history: last set_integer_division_supported since Init
    neonSet,                      \* history: last set_neon_supported since Init
    seen                          \* history: an accessor call before the last
                                  \* call, since Init and with no setter since,
                                  \* and what it returned

build == <<DEBUG, HOST_ARCH_ARM, probe>>
vars == <<DEBUG, HOST_ARCH_ARM, probe, hardware_, integer_division_supported_,
          neon_supported_, hardfp_supported_, store_pc_read_offset_,
          initialized_, pc, last, live, cleanups, divSet, neonSet, seen>>

(***************************************************************************)
(* Bounds and value domains.                                               *)
(***************************************************************************)
\* Cleanup runs at most this many times in a behaviour.
MaxCleanups == 1
\* The probe reports a store-pc read offset in 0..MaxOffset.
MaxOffset == 1

\* The null pointer held by hardware_ while no string is owned.
NullPtr == "<null>"
\* The strings the probe can report; "" is the empty/placeholder name.
HardwareNames == {"", "ARMv7"}
Offsets == 0..MaxOffset
\* The result slot of a call that returned nothing (void, or aborted).
NoValue == "<none>"

HostAccessors == {"hardware", "integer_division_supported", "neon_supported",
                  "hardfp_supported", "store_pc_read_offset"}
Setters == {"set_integer_division_supported", "set_neon_supported"}
Accessors == ({"Host"} \X HostAccessors)
             \cup ({"Target"} \X (HostAccessors \cup {"double_truncate_round_supported"}))

\* What the platform probe hands to Init: either nothing recognizable, or
\* a descriptor with the five values.  It is a fact about the machine the
\* process runs on: the same at every Init of one process.
Probe == [recognized : BOOLEAN, hardware : HardwareNames, idiv : BOOLEAN,
          neon : BOOLEAN, hardfp : BOOLEAN, offset : Offsets]
ProbeInputs == {p \in Probe :
                  ~p.recognized => /\ p.hardware = ""
                                   /\ ~p.idiv /\ ~p.neon /\ ~p.hardfp}

Unset == [set |-> FALSE, val |-> FALSE]
NotSeen == [set |-> FALSE, view |-> "none", op |-> "none", val |-> NoValue]

(***************************************************************************)
(* DEBUG_ASSERT(cond): checked in DEBUG builds, compiled out otherwise.    *)
(* initialized_ is declared only under DEBUG (lines 67-69), so the         *)
(* conditions naming it cannot be evaluated in a non-DEBUG build.          *)
(***************************************************************************)
DEBUG_ASSERT(cond) == DEBUG => cond

(***************************************************************************)
(* The static storage of HostCPUFeatures (lines 62-69) as one record.      *)
(* Every member function below is a function of this record: it yields     *)
(*   ok   - FALSE when its assertion fails (the process aborts),           *)
(*   val  - the value it returns (NoValue for void),                       *)
(*   post - the storage when it returns.                                   *)
(***************************************************************************)
S == [hardware_ |-> hardware_,
      integer_division_supported_ |-> integer_division_supported_,
      neon_supported_ |-> neon_supported_,
      hardfp_supported_ |-> hardfp_supported_,
      store_pc_read_offset_ |-> store_pc_read_offset_,
      initialized_ |-> initialized_]

(***************************************************************************)
(* HostCPUFeatures accessors (lines 29-48).                                *)
(***************************************************************************)
HostCPUFeatures_hardware ==
    [ok |-> DEBUG_ASSERT(initialized_), val |-> hardware_, post |-> S]

HostCPUFeatures_integer_division_supported ==
    [ok |-> DEBUG_ASSERT(initialized_), val |-> integer_division_supported_,
     post |-> S]

\* Variant: the initialization check is made in every build.
HostCPUFeatures_neon_supported_AlwaysAssert ==
    [ok |-> initialized_, val |-> neon_supported_, post |-> S]

HostCPUFeatures_neon_supported ==
    [ok |-> DEBUG_ASSERT(initialized_), val |-> neon_supported_, post |-> S]

\* Variant: the accessor clears the flag it has read.
HostCPUFeatures_hardfp_supported_ReadOnce ==
    [ok |-> DEBUG_ASSERT(initialized_), val |-> hardfp_supported_,
     post |-> [S EXCEPT !.hardfp_supported_ = FALSE]]

HostCPUFeatures_hardfp_supported ==
    [ok |-> DEBUG_ASSERT(initialized_), val |-> hardfp_supported_, post |-> S]

\* Variant: the accessor without its assertion.
HostCPUFeatures_store_pc_read_offset_NoAssert ==
    [ok |-> TRUE, val |-> store_pc_read_offset_, post |-> S]

HostCPUFeatures_store_pc_read_offset ==
    [ok |-> DEBUG_ASSERT(initialized_), val |-> store_pc_read_offset_,
     post |-> S]

(***************************************************************************)
(* HostCPUFeatures setters (lines 50-59), compiled only when the host is   *)
(* not ARM.                                                                *)
(***************************************************************************)
\* Variant: the setter writes the other flag.
HostCPUFeatures_set_integer_division_supported_WritesNeon(supported) ==
    [ok |-> DEBUG_ASSERT(initialized_), val |-> NoValue,
     post |-> [S EXCEPT !.neon_supported_ = supported]]

HostCPUFeatures_set_integer_division_supported(supported) ==
    [ok |-> DEBUG_ASSERT(initialized_), val |-> NoValue,
     post |-> [S EXCEPT !.integer_division_supported_ = supported]]

\* Variant: the setter also writes hardfp_supported_.
HostCPUFeatures_set_neon_supported_AlsoHardfp(supported) ==
    [ok |-> DEBUG_ASSERT(initialized_), val |-> NoValue,
     post |-> [S EXCEPT !.neon_supported_ = supported,
                        !.hardfp_supported_ = supported]]

HostCPUFeatures_set_neon_supported(supported) ==
    [ok |-> DEBUG_ASSERT(initialized_), val |-> NoValue,
     post |-> [S EXCEPT !.neon_supported_ = supported]]

(***************************************************************************)
(* HostCPUFeatures::Init and ::Cleanup (declared at lines 27-28, defined   *)
(* elsewhere).  Init rejects a second Init, stores the five probed values  *)
(* (false flags and the empty name when the probe has no recognizable      *)
(* data) and marks the storage initialized.  Cleanup rejects a Cleanup     *)
(* without Init, releases the name and clears the initialized flag.        *)
(***************************************************************************)
\* Variant: with no recognizable data Init leaves hardfp_supported_ as it was.
HostCPUFeatures_Init_KeepsHardfp ==
    [ok |-> DEBUG_ASSERT(~initialized_), val |-> NoValue,
     post |-> [hardware_ |-> IF probe.recognized THEN probe.hardware ELSE "",
               integer_division_supported_ |-> probe.recognized /\ probe.idiv,
               neon_supported_ |-> probe.recognized /\ probe.neon,
               hardfp_supported_ |-> IF probe.recognized THEN probe.hardfp
                                     ELSE hardfp_supported_,
               store_pc_read_offset_ |-> probe.offset,
               initialized_ |-> IF DEBUG THEN TRUE ELSE initialized_]]

HostCPUFeatures_Init ==
    [ok |-> DEBUG_ASSERT(~initialized_), val |-> NoValue,
     post |-> [hardware_ |-> IF probe.recognized THEN probe.hardware ELSE "",
               integer_division_supported_ |-> probe.recognized /\ probe.idiv,
               neon_supported_ |-> probe.recognized /\ probe.neon,
               hardfp_supported_ |-> probe.recognized /\ probe.hardfp,
               store_pc_read_offset_ |-> probe.offset,
               initialized_ |-> IF DEBUG THEN TRUE ELSE initialized_]]

HostCPUFeatures_Cleanup ==
    [ok |-> DEBUG_ASSERT(initialized_), val |-> NoValue,
     post |-> [S EXCEPT !.hardware_ = NullPtr,
                        !.initialized_ = IF DEBUG THEN FALSE ELSE @]]

(***************************************************************************)
(* TargetCPUFeatures (lines 72-86).                                        *)
(***************************************************************************)
TargetCPUFeatures_Init == HostCPUFeatures_Init

\* Variant: TargetCPUFeatures::Cleanup with an empty body.
TargetCPUFeatures_Cleanup_Empty == [ok |-> TRUE, val |-> NoValue, post |-> S]

TargetCPUFeatures_Cleanup == HostCPUFeatures_Cleanup

\* Variant: the answer is taken from the host's neon flag.
TargetCPUFeatures_double_truncate_round_supported_FromNeon ==
    [ok |-> TRUE, val |-> neon_supported_, post |-> S]

TargetCPUFeatures_double_truncate_round_supported ==
    [ok |-> TRUE, val |-> FALSE, post |-> S]

\* Variant: the target keeps the probed value as its own copy.
TargetCPUFeatures_integer_division_supported_OwnCopy ==
    [HostCPUFeatures_integer_division_supported EXCEPT !.val = probe.idiv]

TargetCPUFeatures_integer_division_supported ==
    HostCPUFeatures_integer_division_supported

TargetCPUFeatures_neon_supported == HostCPUFeatures_neon_supported

\* Variant: the accessor forwards to the wrong host accessor.
TargetCPUFeatures_hardfp_supported_ForwardsNeon ==
    HostCPUFeatures_neon_supported

TargetCPUFeatures_hardfp_supported == HostCPUFeatures_hardfp_supported

TargetCPUFeatures_hardware == HostCPUFeatures_hardware

TargetCPUFeatures_store_pc_read_offset == HostCPUFeatures_store_pc_read_offset

(***************************************************************************)
(* A call of a member function: the process must be running; a failed      *)
(* assertion aborts it and leaves the storage as it was.                   *)
(***************************************************************************)
Call(view, op, r) ==
    /\ pc = "running"
    /\ pc' = IF r.ok THEN "running" ELSE "aborted"
    /\ last' = [view |-> view, op |-> op,
                status |-> IF r.ok THEN "returned" ELSE "aborted",
                ret |-> IF r.ok THEN r.val ELSE NoValue]
    /\ LET post == IF r.ok THEN r.post ELSE S IN
         /\ hardware_' = post.hardware_
         /\ integer_division_supported_' = post.integer_division_supported_
         /\ neon_supported_' = post.neon_supported_
         /\ hardfp_supported_' = post.hardfp_supported_
         /\ store_pc_read_offset_' = post.store_pc_read_offset_
         /\ initialized_' = post.initialized_
    /\ UNCHANGED build

AccessorCall(view, op, r) ==
    /\ Call(view, op, r)
    /\ \/ seen' = seen
       \/ /\ r.ok /\ live /\ ~seen.set
          /\ last.status = "returned" /\ <<last.view, last.op>> \in Accessors
          /\ seen' = [set |-> TRUE, view |-> last.view, op |-> last.op,
                      val |-> last.ret]
    /\ UNCHANGED <<live, cleanups, divSet, neonSet>>

SetterCall(op, supported, r) ==
    /\ ~HOST_ARCH_ARM
    /\ Call("Host", op, r)
    /\ divSet' = IF r.ok /\ op = "set_integer_division_supported"
                 THEN [set |-> TRUE, val |-> supported] ELSE divSet
    /\ neonSet' = IF r.ok /\ op = "set_neon_supported"
                  THEN [set |-> TRUE, val |-> supported] ELSE neonSet
    /\ seen' = IF r.ok THEN NotSeen ELSE seen
    /\ UNCHANGED <<live, cleanups>>

InitCall(view, r) ==
    /\ Call(view, "Init", r)
    /\ IF r.ok
       THEN /\ live' = TRUE
            /\ divSet' = Unset
            /\ neonSet' = Unset
            /\ seen' = NotSeen
       ELSE UNCHANGED <<live, divSet, neonSet, seen>>
    /\ UNCHANGED cleanups

CleanupCall(view, r) ==
    /\ r.ok => cleanups < MaxCleanups
    /\ Call(view, "Cleanup", r)
    /\ IF r.ok
       THEN /\ live' = FALSE
            /\ cleanups' = cleanups + 1
            /\ divSet' = Unset
            /\ neonSet' = Unset
            /\ seen' = NotSeen
       ELSE UNCHANGED <<live, cleanups, divSet, neonSet, seen>>

(***************************************************************************)
(* One action per member function.                                         *)
(***************************************************************************)
Host_Init == InitCall("Host", HostCPUFeatures_Init)

Host_Cleanup == CleanupCall("Host", HostCPUFeatures_Cleanup)

Host_hardware == AccessorCall("Host", "hardware", HostCPUFeatures_hardware)

Host_integer_division_supported ==
    AccessorCall("Host", "integer_division_supported",
                 HostCPUFeatures_integer_division_supported)

Host_neon_supported ==
    AccessorCall("Host", "neon_supported", HostCPUFeatures_neon_supported)

Host_hardfp_supported ==
    AccessorCall("Host", "hardfp_supported", HostCPUFeatures_hardfp_supported)

Host_store_pc_read_offset ==
    AccessorCall("Host", "store_pc_read_offset",
                 HostCPUFeatures_store_pc_read_offset)

Host_set_integer_division_supported == \E supported \in BOOLEAN :
    SetterCall("set_integer_division_supported", supported,
               HostCPUFeatures_set_integer_division_supported(supported))

Host_set_neon_supported == \E supported \in BOOLEAN :
    SetterCall("set_neon_supported", supported,
               HostCPUFeatures_set_neon_supported(supported))

Target_Init == InitCall("Target", TargetCPUFeatures_Init)

Target_Cleanup == CleanupCall("Target", TargetCPUFeatures_Cleanup)

Target_double_truncate_round_supported ==
    AccessorCall("Target", "double_truncate_round_supported",
                 TargetCPUFeatures_double_truncate_round_supported)

Target_integer_division_supported ==
    AccessorCall("Target", "integer_division_supported",
                 TargetCPUFeatures_integer_division_supported)

Target_neon_supported ==
    AccessorCall("Target", "neon_supported", TargetCPUFeatures_neon_supported)

Target_hardfp_supported ==
    AccessorCall("Target", "hardfp_supported",
                 TargetCPUFeatures_hardfp_supported)

Target_hardware ==
    AccessorCall("Target", "hardware", TargetCPUFeatures_hardware)

Target_store_pc_read_offset ==
    AccessorCall("Target", "store_pc_read_offset",
                 TargetCPUFeatures_store_pc_read_offset)

(***************************************************************************)
(* The state at program start.  The build is one of the four combinations  *)
(* of DEBUG and HOST_ARCH_ARM.  No string is owned yet; the flags and the  *)
(* offset hold whatever their static initialisers give them, which the     *)
(* header does not show.  initialized_ starts false (and, outside DEBUG    *)
(* builds, does not exist: it is then never read nor written).             *)
(***************************************************************************)
Init ==
    /\ DEBUG \in BOOLEAN
    /\ HOST_ARCH_ARM \in BOOLEAN
    /\ probe \in ProbeInputs
    /\ hardware_ = NullPtr
    /\ integer_division_supported_ \in BOOLEAN
    /\ neon_supported_ \in BOOLEAN
    /\ hardfp_supported_ \in BOOLEAN
    /\ store_pc_read_offset_ \in Offsets
    /\ initialized_ = FALSE
    /\ pc = "running"
    /\ last = [view |-> "none", op |-> "none", status |-> "none",
               ret |-> NoValue]
    /\ live = FALSE
    /\ cleanups = 0
    /\ divSet = Unset
    /\ neonSet = Unset
    /\ seen = NotSeen

Next ==
    \/ Host_Init
    \/ Host_Cleanup
    \/ Host_hardware
    \/ Host_integer_division_supported
    \/ Host_neon_supported
    \/ Host_hardfp_supported
    \/ Host_store_pc_read_offset
    \/ Host_set_integer_division_supported
    \/ Host_set_neon_supported
    \/ Target_Init
    \/ Target_Cleanup
    \/ Target_double_truncate_round_supported
    \/ Target_integer_division_supported
    \/ Target_neon_supported
    \/ Target_hardfp_supported
    \/ Target_hardware
    \/ Target_store_pc_read_offset

Spec == Init /\ [][Next]_vars


(***************************************************************************)
(* Vocabulary of the properties.                                           *)
(***************************************************************************)
Returned(view, op) ==
    last.view = view /\ last.op = op /\ last.status = "returned"

NoSetterSinceInit == ~divSet.set /\ ~neonSet.set

\* The stored field an accessor of the given name reads.
FieldOf(op) ==
    CASE op = "hardware" -> hardware_
      [] op = "integer_division_supported" -> integer_division_supported_
      [] op = "neon_supported" -> neon_supported_
      [] op = "hardfp_supported" -> hardfp_supported_
      [] op = "store_pc_read_offset" -> store_pc_read_offset_

\* C1: whenever a TargetCPUFeatures accessor has returned, the value it
\* returned is the value the HostCPUFeatures accessor of the same name
\* returns in that state; when it aborted, so would the host accessor.
C1_TargetEqualsHost ==
    /\ last.view = "Target" /\ last.op = "integer_division_supported" =>
         IF last.status = "returned"
         THEN /\ HostCPUFeatures_integer_division_supported.ok
              /\ last.ret = HostCPUFeatures_integer_division_supported.val
         ELSE ~HostCPUFeatures_integer_division_supported.ok
    /\ last.view = "Target" /\ last.op = "neon_supported" =>
         IF last.status = "returned"
         THEN /\ HostCPUFeatures_neon_supported.ok
              /\ last.ret = HostCPUFeatures_neon_supported.val
         ELSE ~HostCPUFeatures_neon_supported.ok
    /\ last.view = "Target" /\ last.op = "hardfp_supported" =>
         IF last.status = "returned"
         THEN /\ HostCPUFeatures_hardfp_supported.ok
              /\ last.ret = HostCPUFeatures_hardfp_supported.val
         ELSE ~HostCPUFeatures_hardfp_supported.ok
    /\ last.view = "Target" /\ last.op = "hardware" =>
         IF last.status = "returned"
         THEN /\ HostCPUFeatures_hardware.ok
              /\ last.ret = HostCPUFeatures_hardware.val
         ELSE ~HostCPUFeatures_hardware.ok
    /\ last.view = "Target" /\ last.op = "store_pc_read_offset" =>
         IF last.status = "returned"
         THEN /\ HostCPUFeatures_store_pc_read_offset.ok
              /\ last.ret = HostCPUFeatures_store_pc_read_offset.val
         ELSE ~HostCPUFeatures_store_pc_read_offset.ok

\* A target accessor has returned after a Cleanup, a second Init and a
\* setter call that made hardfp and neon differ.
C1_Witness ==
    /\ Returned("Target", "hardfp_supported")
    /\ live /\ cleanups >= 1 /\ neonSet.set
    /\ hardfp_supported_ # neon_supported_

\* C2: where the setters exist (host is not ARM), after Init, a value given
\* to set_integer_division_supported / set_neon_supported is what
\* TargetCPUFeatures::integer_division_supported / neon_supported returns
\* afterwards, whatever the order of the two setter calls.
C2_SettersVisible ==
    ~HOST_ARCH_ARM /\ live =>
      /\ divSet.set /\ Returned("Target", "integer_division_supported")
           => last.ret = divSet.val
      /\ neonSet.set /\ Returned("Target", "neon_supported")
           => last.ret = neonSet.val

\* Both setters were called with different values, against what the probe
\* reported, and the target accessor has then returned.
C2_Witness ==
    /\ ~HOST_ARCH_ARM /\ live
    /\ divSet.set /\ neonSet.set /\ divSet.val # neonSet.val
    /\ divSet.val # probe.idiv
    /\ Returned("Target", "integer_division_supported")

C4_UseWhileUninitialized ==
    [][DEBUG /\ ~live /\ last'.op \in HostAccessors \cup Setters =>
         /\ pc' = "aborted"
         /\ last'.status = "aborted"
         /\ last'.ret = NoValue
         /\ S' = S
      ]_vars

\* A setter called after a Cleanup has aborted a DEBUG build.
C4_Witness ==
    /\ DEBUG /\ ~live /\ cleanups >= 1 /\ pc = "aborted"
    /\ last.op = "set_neon_supported" /\ last.status = "aborted"

\* C5: every call of TargetCPUFeatures::double_truncate_round_supported
\* returns false without aborting and leaves every HostCPUFeatures field as
\* it was, in every state (initialized or not, overrides applied or not).
C5_DoubleTruncateRoundFalse ==
    [][last'.op = "double_truncate_round_supported" =>
         /\ pc' = "running"
         /\ last'.status = "returned"
         /\ last'.ret = FALSE
         /\ S' = S
      ]_vars

\* It has returned false after integer division was overridden to true and
\* neon to false.
C5_Witness ==
    /\ Returned("Target", "double_truncate_round_supported")
    /\ last.ret = FALSE
    /\ divSet = [set |-> TRUE, val |-> TRUE]
    /\ neonSet = [set |-> TRUE, val |-> FALSE]
    /\ integer_division_supported_ /\ ~neon_supported_

\* C6: a setter changes at most its own flag, and nothing but Init and
\* Cleanup changes hardfp_supported_, hardware_ or store_pc_read_offset_.
C6_SetterFrame ==
    [][/\ last'.op = "set_integer_division_supported" =>
            UNCHANGED <<neon_supported_, hardfp_supported_, hardware_,
                        store_pc_read_offset_, initialized_>>
       /\ last'.op = "set_neon_supported" =>
            UNCHANGED <<integer_division_supported_, hardfp_supported_,
                        hardware_, store_pc_read_offset_, initialized_>>
       /\ last'.op \notin {"Init", "Cleanup"} =>
            UNCHANGED <<hardfp_supported_, hardware_, store_pc_read_offset_>>
      ]_vars

\* set_neon_supported has returned and neon now differs from the probe.
C6_Witness ==
    /\ Returned("Host", "set_neon_supported")
    /\ live /\ neonSet.set /\ neon_supported_ # probe.neon

\* C7: when the probe has no recognizable data, then after Init (and before
\* any setter) the three flags are false and the name is the empty string,
\* whatever the fields held before, and that is what the accessors return.
C7_DefaultSafety ==
    live /\ ~probe.recognized /\ NoSetterSinceInit =>
      /\ ~integer_division_supported_
      /\ ~neon_supported_
      /\ ~hardfp_supported_
      /\ hardware_ = ""
      /\ last.status = "returned" /\ last.op \in
           {"integer_division_supported", "neon_supported", "hardfp_supported"}
           => last.ret = FALSE
      /\ last.status = "returned" /\ last.op = "hardware" => last.ret = ""

\* hardfp_supported has returned false after an Init whose probe had no data.
C7_Witness ==
    /\ live /\ ~probe.recognized /\ NoSetterSinceInit
    /\ Returned("Host", "hardfp_supported") /\ last.ret = FALSE

\* C8 as stated: where host and target differ, the values TargetCPUFeatures
\* returns are held apart from the HostCPUFeatures fields, so a setter's
\* change to a host flag is no change to the target's value.
C8_Original ==
    [][~HOST_ARCH_ARM =>
        /\ integer_division_supported_' # integer_division_supported_ =>
             TargetCPUFeatures_integer_division_supported'.val
               = TargetCPUFeatures_integer_division_supported.val
        /\ neon_supported_' # neon_supported_ =>
             TargetCPUFeatures_neon_supported'.val
               = TargetCPUFeatures_neon_supported.val
      ]_vars

\* C8 amended: where host and target differ, TargetCPUFeatures still holds
\* no state of its own; a setter's change to a host flag is at once the same
\* change to the value the target accessor returns.
C8_TargetFollowsHost ==
    [][~HOST_ARCH_ARM /\ last'.op \in Setters =>
        /\ integer_division_supported_' # integer_division_supported_ =>
             /\ TargetCPUFeatures_integer_division_supported'.val
                  = integer_division_supported_'
             /\ TargetCPUFeatures_integer_division_supported'.val
                  # TargetCPUFeatures_integer_division_supported.val
        /\ neon_supported_' # neon_supported_ =>
             /\ TargetCPUFeatures_neon_supported'.val = neon_supported_'
             /\ TargetCPUFeatures_neon_supported'.val
                  # TargetCPUFeatures_neon_supported.val
      ]_vars

\* set_integer_division_supported has changed the host flag away from what
\* the probe reported.
C8_Witness ==
    /\ ~HOST_ARCH_ARM /\ live
    /\ Returned("Host", "set_integer_division_supported")
    /\ integer_division_supported_ # probe.idiv

\* An earlier accessor call since Init, with no setter since, returned
\* seen.val: a later call of that accessor returns the same value.
SameAsSeen ==
    live /\ seen.set /\ Returned(seen.view, seen.op) => last.ret = seen.val

\* C9: between Init and Cleanup, with no setter called, an accessor call
\* changes no field, and every call of an accessor returns what an earlier
\* call of it returned.
C9_ImmutableAfterInit ==
    [][/\ last'.op \in HostAccessors \cup {"double_truncate_round_supported"}
            => S' = S
       /\ SameAsSeen'
      ]_vars

\* hardfp_supported was called, and later called again, after a setter had
\* changed a flag before the last Init.
C9_Witness ==
    /\ live /\ cleanups >= 1 /\ seen.set
    /\ seen.view = "Target" /\ seen.op = "hardfp_supported"
    /\ Returned("Target", "hardfp_supported")
    /\ integer_division_supported_ # probe.idiv

\* C10: in non-DEBUG builds nothing tracks initialization, and an accessor
\* or setter called while no Init is in force does not abort: the accessor
\* returns the stored field and the setter overwrites its flag.
C10_ReleaseUnchecked ==
    [][~DEBUG =>
        /\ initialized_' = initialized_
        /\ ~live /\ last'.op \in HostAccessors \cup Setters =>
             /\ pc' = "running"
             /\ last'.status = "returned"
        /\ ~live /\ last'.op \in HostAccessors =>
             /\ last'.ret = FieldOf(last'.op)
             /\ S' = S
        /\ ~live /\ last'.op = "set_integer_division_supported" =>
             divSet'.set /\ integer_division_supported_' = divSet'.val
        /\ ~live /\ last'.op = "set_neon_supported" =>
             neonSet'.set /\ neon_supported_' = neonSet'.val
      ]_vars

\* After a Cleanup in a non-DEBUG build, hardware() has returned the
\* released (null) name.
C10_Witness ==
    /\ ~DEBUG /\ ~live /\ cleanups >= 1
    /\ Returned("Target", "hardware") /\ last.ret = NullPtr

====
